---- MODULE Spec2Model ----
(***************************************************************************)
(* Receipt pipeline of ocr_processor.py: process_receipt (image check,     *)
(* preprocessing, the OCR profile loop, the single language-model call,    *)
(* locating the JSON payload, convert_to_valid_json, json.loads and the    *)
(* validation loop).  Texts are TLA+ strings read character by character;  *)
(* the regular expressions of the source are written out as scans.         *)
(***************************************************************************)
EXTENDS Integers, Sequences, FiniteSets, TLC

VARIABLES
    image,              \* the file behind image_path: "missing", "undecodable" or "ok"
    pc,                 \* position inside process_receipt
    psm_idx,            \* index into psm_modes of the profile the loop is at
    attempts,           \* per profile run so far: its psm mode and raw OCR output
    extracted_text,     \* best OCR text so far
    stub,               \* what the language-model client answered in this run
    response_content,   \* the model's reply after .strip() (rewritten at line 116)
    json_str,           \* the located candidate
    valid_json_str,     \* the candidate after convert_to_valid_json
    categorized_items,  \* json.loads(valid_json_str)
    processed_items,    \* the validated LineItems
    result,             \* the value process_receipt returns
    returned_at,        \* the source line of the return statement that ended the call
    printed,            \* the last diagnostic the call printed
    ocr_calls,          \* number of pytesseract.image_to_string calls
    llm_calls,          \* number of chat.completions.create calls
    search_calls,       \* number of times the payload search of line 112 ran
    repair_calls,       \* number of convert_to_valid_json calls
    parse_calls,        \* number of json.loads calls
    client,             \* OCRWidget: whether groq_client_instance is set
    selected_image,     \* OCRWidget: "none", "unreadable" or "shown" (_selected_image_path, preview)
    process_enabled,    \* OCRWidget: process_button.isEnabled()
    select_enabled,     \* OCRWidget: select_image_button.isEnabled()
    dialog_open,        \* OCRWidget: the progress dialog is on screen
    ocr_thread,         \* OCRWidget: the run whose OCRWorker ocr_thread holds, 0 for None
    runs,               \* per started run: its worker's state and what process_receipt gives
    events,             \* the GUI thread's event queue: clicks and queued signals
    table,              \* OCRWidget: the run whose items results_table shows, 0 for no rows
    boxes,              \* the message boxes shown so far, each with the run it reports on (a set)
    main_credits,       \* MainWindow.current_credits
    chat_credits,       \* ChatWidget.current_credits
    model_name,         \* ChatWidget: model_combo.currentText(), current_model_name
    input_enabled,      \* ChatWidget: message_input.isEnabled()
    send_enabled,       \* ChatWidget: send_button.isEnabled()
    last                \* what the latest chat event did: its kind, model and reply

receiptVars == <<image, pc, psm_idx, attempts, extracted_text, stub, response_content,
          json_str, valid_json_str, categorized_items, processed_items,
          result, returned_at, printed, ocr_calls, llm_calls, search_calls,
          repair_calls, parse_calls>>

uiVars == <<client, selected_image, process_enabled, select_enabled, dialog_open,
            ocr_thread, runs, events, table, boxes>>

chatVars == <<main_credits, chat_credits, model_name, input_enabled, send_enabled, last>>

vars == <<receiptVars, uiVars, chatVars>>

-----------------------------------------------------------------------------
(* Strings *)

\* The character at position i, "" outside the text.
At(s, i) == IF i >= 1 /\ i <= Len(s) THEN SubSeq(s, i, i) ELSE ""

From(s, i) == SubSeq(s, i, Len(s))

StartsWithAt(s, i, p) ==
    /\ i >= 1
    /\ i + Len(p) - 1 <= Len(s)
    /\ SubSeq(s, i, i + Len(p) - 1) = p

Least(S) == CHOOSE x \in S : \A y \in S : x <= y

Greatest(S) == CHOOSE x \in S : \A y \in S : x >= y

\* Index of the first occurrence of p at or after position i (i >= 1), 0 when
\* none; the text is searched sixteen positions at a time.
RECURSIVE Find(_, _, _)
Find(s, p, i) ==
    LET hits == {j \in i..(i + 15) : StartsWithAt(s, j, p)}
    IN  IF i + Len(p) - 1 > Len(s) THEN 0
        ELSE IF hits # {} THEN Least(hits)
        ELSE Find(s, p, i + 16)

\* Index of the last occurrence of p at or before position i, 0 when none.
RECURSIVE FindLastFrom(_, _, _)
FindLastFrom(s, p, i) ==
    LET hits == {j \in (i - 15)..i : StartsWithAt(s, j, p)}
    IN  IF i < 1 THEN 0
        ELSE IF hits # {} THEN Greatest(hits)
        ELSE FindLastFrom(s, p, i - 16)

FindLast(s, p) == FindLastFrom(s, p, Len(s))

Contains(s, p) == Find(s, p, 1) # 0

\* White space of str.strip() and of \s in a str pattern (ASCII part).
IsSpace(c) == c \in {" ", "\t", "\n", "\r", "\f"}

\* First position at or after i that holds no white space (Len(s) + 1 when none).
RECURSIVE SkipSpace(_, _)
SkipSpace(s, i) == IF IsSpace(At(s, i)) THEN SkipSpace(s, i + 1) ELSE i

\* Last position at or before i that holds no white space (0 when none).
RECURSIVE SkipSpaceBack(_, _)
SkipSpaceBack(s, i) == IF IsSpace(At(s, i)) THEN SkipSpaceBack(s, i - 1) ELSE i

\* str.strip()
Strip(s) == SubSeq(s, SkipSpace(s, 1), SkipSpaceBack(s, Len(s)))

\* str.replace(old, new): left to right, non-overlapping.
RECURSIVE ReplaceFrom(_, _, _, _)
ReplaceFrom(s, old, new, i) ==
    LET a == Find(s, old, i)
    IN  IF a = 0 THEN From(s, i)
        ELSE SubSeq(s, i, a - 1) \o new \o ReplaceFrom(s, old, new, a + Len(old))

Replace(s, old, new) == ReplaceFrom(s, old, new, 1)

\* n copies of the text c.
RECURSIVE Repeat(_, _)
Repeat(c, n) == IF n <= 0 THEN "" ELSE c \o Repeat(c, n - 1)

-----------------------------------------------------------------------------
(* convert_to_valid_json, src/ocr_processor.py:36-53 *)

\* re.sub(r'//.*$', '', s, flags=re.MULTILINE): from // to the end of the line.
RECURSIVE StripLineCommentsFrom(_, _)
StripLineCommentsFrom(s, i) ==
    LET a == Find(s, "//", i)
        nl == Find(s, "\n", a)
    IN  IF a = 0 THEN From(s, i)
        ELSE IF nl = 0 THEN SubSeq(s, i, a - 1)
        ELSE SubSeq(s, i, a - 1) \o StripLineCommentsFrom(s, nl)

StripLineComments(s) == StripLineCommentsFrom(s, 1)

\* re.sub(r'/\*.*?\*/', '', s, flags=re.DOTALL): from /* to the first */ after
\* it; an opener with no */ after it leaves the rest of the text as it is.
RECURSIVE StripBlockCommentsFrom(_, _)
StripBlockCommentsFrom(s, i) ==
    LET a == Find(s, "/*", i)
        close == IF a = 0 THEN 0 ELSE Find(s, "*/", a + 2)
    IN  IF close = 0 THEN From(s, i)
        ELSE SubSeq(s, i, a - 1) \o StripBlockCommentsFrom(s, close + 2)

StripBlockComments(s) == StripBlockCommentsFrom(s, 1)

\* re.sub(r"(?<!\\)'([^']*)'", r'"\1"', s): an opening quote not preceded by a
\* backslash, up to the next quote of any kind.
\* First quote at or after i that no backslash precedes, 0 when none.
RECURSIVE FindOpenQuote(_, _)
FindOpenQuote(s, i) ==
    LET a == Find(s, "'", i)
    IN  IF a = 0 THEN 0
        ELSE IF At(s, a - 1) = "\\" THEN FindOpenQuote(s, a + 1)
        ELSE a

RECURSIVE RewriteQuotesFrom(_, _)
RewriteQuotesFrom(s, i) ==
    LET a == FindOpenQuote(s, i)
        close == IF a = 0 THEN 0 ELSE Find(s, "'", a + 1)
    IN  IF close = 0 THEN From(s, i)
        ELSE SubSeq(s, i, a - 1) \o "\"" \o SubSeq(s, a + 1, close - 1) \o "\""
                 \o RewriteQuotesFrom(s, close + 1)

RewriteQuotes(s) == RewriteQuotesFrom(s, 1)

MissingPricePhrase == "\"price\": missing (cannot extract price)"

\* s.replace('"price": missing (cannot extract price)', '"price": null')
ReplaceMissingPrice(s) == Replace(s, MissingPricePhrase, "\"price\": null")

\* s.replace("None", "null")
ReplaceNone(s) == Replace(s, "None", "null")

\* re.sub(r',\s*}', '}', s) and re.sub(r',\s*\]', ']', s), closer being } or ].
\* First comma at or after i that only white space parts from closer, 0 when none.
RECURSIVE FindTrailingComma(_, _, _)
FindTrailingComma(s, closer, i) ==
    LET a == Find(s, ",", i)
    IN  IF a = 0 THEN 0
        ELSE IF At(s, SkipSpace(s, a + 1)) = closer THEN a
        ELSE FindTrailingComma(s, closer, a + 1)

RECURSIVE StripTrailingCommaFrom(_, _, _)
StripTrailingCommaFrom(s, closer, i) ==
    LET a == FindTrailingComma(s, closer, i)
    IN  IF a = 0 THEN From(s, i)
        ELSE SubSeq(s, i, a - 1) \o closer
                 \o StripTrailingCommaFrom(s, closer, SkipSpace(s, a + 1) + 1)

StripTrailingComma(s, closer) == StripTrailingCommaFrom(s, closer, 1)

\* Faulty variant of convert_to_valid_json: the phrase is replaced before the
\* quotes are rewritten.
convert_phrase_before_quotes(s) ==
    StripTrailingComma(
        StripTrailingComma(
            ReplaceNone(
                RewriteQuotes(
                    ReplaceMissingPrice(
                        StripBlockComments(
                            StripLineComments(s))))),
            "}"),
        "]")

convert_to_valid_json(s) ==
    StripTrailingComma(
        StripTrailingComma(
            ReplaceNone(
                ReplaceMissingPrice(
                    RewriteQuotes(
                        StripBlockComments(
                            StripLineComments(s))))),
            "}"),
        "]")

-----------------------------------------------------------------------------
(* Locating the payload, src/ocr_processor.py:112-129 *)

\* Faulty variant of GreedySpan: the span ends at the first closer.
LazySpan(s, open, close) ==
    LET a == Find(s, open, 1)
        b == IF a = 0 THEN 0 ELSE Find(s, close, a + 1)
    IN  IF b # 0 THEN SubSeq(s, a, b) ELSE ""

\* re.search of open.*close with DOTALL: the span from the first opener to the
\* last closer after it, "" standing for no match (a match is never empty).
GreedySpan(s, open, close) ==
    LET a == Find(s, open, 1)
        b == FindLast(s, close)
    IN  IF a # 0 /\ b > a THEN SubSeq(s, a, b) ELSE ""

\* re.finditer(r'\{.*?\}', s, DOTALL): every span from a { to the first } after
\* it, scanning on after each match.
RECURSIVE ObjectSpansFrom(_, _)
ObjectSpansFrom(s, i) ==
    LET a == Find(s, "{", i)
        b == IF a = 0 THEN 0 ELSE Find(s, "}", a + 1)
    IN  IF b = 0 THEN <<>>
        ELSE <<SubSeq(s, a, b)>> \o ObjectSpansFrom(s, b + 1)

\* sep.join(parts)
RECURSIVE Join(_, _)
Join(parts, sep) ==
    IF parts = <<>> THEN ""
    ELSE IF Len(parts) = 1 THEN parts[1]
    ELSE parts[1] \o sep \o Join(Tail(parts), sep)

\* Faulty variant of LocateArray: the single-object search is left out.
LocateArrayOnly(resp) ==
    [content |-> resp, match |-> GreedySpan(resp, "[", "]")]

\* Lines 112-117: the array search, then the single-object search and its
\* wrapping; gives the response_content and the match kept in json_match.
LocateArray(resp) ==
    LET arr == GreedySpan(resp, "[", "]")
        obj == GreedySpan(resp, "{", "}")
    IN  IF arr # "" THEN [content |-> resp, match |-> arr]
        ELSE IF obj # ""
             THEN LET wrapped == "[" \o obj \o "]"
                  IN  [content |-> wrapped, match |-> GreedySpan(wrapped, "[", "]")]
             ELSE [content |-> resp, match |-> ""]

\* Faulty variant of LocateJson: an empty array stands in when nothing is found.
LocateJsonOrEmptyArray(resp) ==
    LET loc == LocateArray(resp)
    IN  IF loc.match # "" THEN loc.match ELSE "[]"

\* Lines 120-129: json_str, "" standing for the return None of line 127.
LocateJson(resp) ==
    LET loc == LocateArray(resp)
        objs == ObjectSpansFrom(loc.content, 1)
    IN  IF loc.match # "" THEN loc.match
        ELSE IF objs # <<>> THEN "[" \o Join(objs, ",") \o "]"
        ELSE ""

-----------------------------------------------------------------------------
(* Python values; a float is m / 10^e, with e = 0 or m not a multiple of 10 *)

MkVal(t, s, m, e, v) == [t |-> t, s |-> s, m |-> m, e |-> e, v |-> v]

MkStr(s) == MkVal("str", s, 0, 0, <<>>)
MkInt(n) == MkVal("int", "", n, 0, <<>>)
MkNull == MkVal("null", "", 0, 0, <<>>)
MkBool(b) == MkVal("bool", "", IF b THEN 1 ELSE 0, 0, <<>>)
MkInf(neg) == MkVal("inf", "", IF neg THEN -1 ELSE 1, 0, <<>>)
MkNan == MkVal("nan", "", 0, 0, <<>>)
MkList(v) == MkVal("list", "", 0, 0, v)
MkDict(kv) == MkVal("dict", "", 0, 0, kv)

RECURSIVE Pow10(_)
Pow10(n) == IF n <= 0 THEN 1 ELSE 10 * Pow10(n - 1)

\* Number of trailing decimal zeros that may be dropped from m, at most e.
RECURSIVE TrailingZeros(_, _)
TrailingZeros(m, e) ==
    IF e > 0 /\ m % 10 = 0 THEN 1 + TrailingZeros(m \div 10, e - 1) ELSE 0

MkFloat(m, e) ==
    LET mm == IF e < 0 THEN m * Pow10(-e) ELSE m
        ee == IF e < 0 THEN 0 ELSE e
        z == IF mm = 0 THEN ee ELSE TrailingZeros(IF mm < 0 THEN -mm ELSE mm, ee)
    IN  MkVal("float", "", IF mm < 0 THEN -((-mm) \div Pow10(z)) ELSE mm \div Pow10(z),
              ee - z, <<>>)

Zero == MkFloat(0, 0)

IsDigit(c) == c \in {"0", "1", "2", "3", "4", "5", "6", "7", "8", "9"}

DigitVal(c) ==
    CASE c = "0" -> 0 [] c = "1" -> 1 [] c = "2" -> 2 [] c = "3" -> 3 [] c = "4" -> 4
      [] c = "5" -> 5 [] c = "6" -> 6 [] c = "7" -> 7 [] c = "8" -> 8 [] c = "9" -> 9

DigitChar(d) == At("0123456789", d + 1)

\* The digits d (a text of digits, possibly empty) read as a number.
RECURSIVE DigitsToInt(_)
DigitsToInt(d) ==
    IF d = "" THEN 0
    ELSE 10 * DigitsToInt(SubSeq(d, 1, Len(d) - 1)) + DigitVal(At(d, Len(d)))

\* Last position of the run of digits starting at i (i - 1 when s[i] is no digit).
RECURSIVE DigitRunEnd(_, _)
DigitRunEnd(s, i) == IF IsDigit(At(s, i)) THEN DigitRunEnd(s, i + 1) ELSE i - 1

RECURSIVE NatToStr(_)
NatToStr(n) == IF n < 10 THEN DigitChar(n) ELSE NatToStr(n \div 10) \o DigitChar(n % 10)

IntToStr(n) == IF n < 0 THEN "-" \o NatToStr(-n) ELSE NatToStr(n)

-----------------------------------------------------------------------------
(* json.loads, the standard decoder the source calls at line 136.  Texts     *)
(* hold no \u escapes and numbers no exponent beyond what Pow10 computes.    *)

Fail == [ok |-> FALSE, val |-> MkNull, pos |-> 0]

Ok(val, pos) == [ok |-> TRUE, val |-> val, pos |-> pos]

\* json.decoder.WHITESPACE: [ \t\n\r]*
IsJsonSpace(c) == c \in {" ", "\t", "\n", "\r"}

RECURSIVE JsonSkip(_, _)
JsonSkip(s, i) == IF IsJsonSpace(At(s, i)) THEN JsonSkip(s, i + 1) ELSE i

\* Number of backslashes in a row ending at position i.
RECURSIVE BackslashRun(_, _)
BackslashRun(s, i) == IF At(s, i) = "\\" THEN 1 + BackslashRun(s, i - 1) ELSE 0

\* The quote that closes the string whose text starts at i: the first one at or
\* after i behind an even number of backslashes (counted from start on).
RECURSIVE ClosingQuote(_, _, _)
ClosingQuote(s, start, i) ==
    LET a == Find(s, "\"", i)
    IN  IF a = 0 THEN 0
        ELSE IF BackslashRun(SubSeq(s, start, a - 1), a - start) % 2 = 0 THEN a
        ELSE ClosingQuote(s, start, a + 1)

\* The character a JSON escape \c stands for, "" when \c is no escape.
EscapeChar(c) ==
    CASE c = "\"" -> "\"" [] c = "\\" -> "\\" [] c = "/" -> "/" [] c = "n" -> "\n"
      [] c = "t" -> "\t" [] c = "r" -> "\r" [] c = "f" -> "\f" [] OTHER -> ""

\* The text between the quotes with its escapes replaced; ok is FALSE on an
\* invalid escape.
RECURSIVE Unescape(_, _)
Unescape(s, i) ==
    LET a == Find(s, "\\", i)
        c == EscapeChar(At(s, a + 1))
        rest == Unescape(s, a + 2)
    IN  IF a = 0 THEN [ok |-> TRUE, s |-> From(s, i)]
        ELSE IF a = Len(s) \/ c = "" THEN [ok |-> FALSE, s |-> ""]
        ELSE [ok |-> rest.ok, s |-> SubSeq(s, i, a - 1) \o c \o rest.s]

\* py_scanstring once the closing quote is known to stand at end (0: none).
StringEndingAt(s, i, end) ==
    LET body == SubSeq(s, i + 1, end - 1)
        un == Unescape(body, 1)
    IN  IF end = 0 THEN Fail
        ELSE IF \E c \in {"\n", "\t", "\r", "\f"} : Contains(body, c) THEN Fail
        ELSE IF ~un.ok THEN Fail
        ELSE Ok(MkStr(un.s), end + 1)

\* py_scanstring, strict: s[i] is the opening quote; pos is the position after
\* the closing quote.
ScanString(s, i) == StringEndingAt(s, i, ClosingQuote(s, i + 1, i + 1))

\* Last position of the exponent ([eE][-+]?\d+)? that may follow position
\* fracEnd (fracEnd itself when there is none).
ExpEnd(s, fracEnd) ==
    LET expSign == IF At(s, fracEnd + 2) \in {"+", "-"} THEN fracEnd + 3 ELSE fracEnd + 2
    IN  IF At(s, fracEnd + 1) \in {"e", "E"} /\ IsDigit(At(s, expSign))
        THEN DigitRunEnd(s, expSign)
        ELSE fracEnd

\* The exponent written in fracEnd+1 .. expEnd (0 when there is none).
Exponent(s, fracEnd, expEnd) ==
    LET expSign == IF At(s, fracEnd + 2) \in {"+", "-"} THEN fracEnd + 3 ELSE fracEnd + 2
        expAbs == DigitsToInt(SubSeq(s, expSign, expEnd))
    IN  IF expEnd = fracEnd THEN 0
        ELSE IF At(s, fracEnd + 2) = "-" THEN -expAbs
        ELSE expAbs

\* Number of digits after the point, the point standing at intEnd + 1.
FracLen(intEnd, fracEnd) == IF fracEnd > intEnd THEN fracEnd - intEnd - 1 ELSE 0

\* The digits j .. intEnd and intEnd+2 .. fracEnd read as one integer.
Mantissa(s, j, intEnd, fracEnd) ==
    DigitsToInt(SubSeq(s, j, intEnd)) * Pow10(FracLen(intEnd, fracEnd))
        + DigitsToInt(SubSeq(s, intEnd + 2, fracEnd))

\* NUMBER_RE once its three groups are known to end at intEnd, fracEnd, expEnd:
\* an int when there is neither fraction nor exponent, a float otherwise.
NumberValue(s, i, j, intEnd, fracEnd, expEnd) ==
    LET sgn == IF j > i THEN -1 ELSE 1
    IN  IF expEnd = intEnd
        THEN Ok(MkInt(sgn * DigitsToInt(SubSeq(s, j, intEnd))), intEnd + 1)
        ELSE Ok(MkFloat(sgn * Mantissa(s, j, intEnd, fracEnd),
                        FracLen(intEnd, fracEnd) - Exponent(s, fracEnd, expEnd)),
                expEnd + 1)

\* NUMBER_RE after its integer group (0|[1-9]\d*), which ends at intEnd: the
\* fraction (\.\d+)? and then the exponent.
NumberAfterInt(s, i, j, intEnd, fracEnd) ==
    IF intEnd < j THEN Fail
    ELSE NumberValue(s, i, j, intEnd, fracEnd, ExpEnd(s, fracEnd))

\* NUMBER_RE after its sign, the digits starting at j.
NumberAfterSign(s, i, j, intEnd) ==
    NumberAfterInt(s, i, j, intEnd,
                   IF At(s, intEnd + 1) = "." /\ IsDigit(At(s, intEnd + 2))
                   THEN DigitRunEnd(s, intEnd + 2)
                   ELSE intEnd)

\* NUMBER_RE (-?(?:0|[1-9]\d*))(\.\d+)?([eE][-+]?\d+)? matched at i.
ScanNumber(s, i) ==
    LET j == IF At(s, i) = "-" THEN i + 1 ELSE i
    IN  NumberAfterSign(s, i, j, IF At(s, j) = "0" THEN j ELSE DigitRunEnd(s, j))

\* dict semantics of the pairs read so far: a repeated key keeps its first
\* place and takes the last value.
RECURSIVE DictItems(_)
DictItems(kv) ==
    IF kv = <<>> THEN <<>>
    ELSE LET n == Len(kv)
             init == DictItems(SubSeq(kv, 1, n - 1))
             at == {i \in 1..Len(init) : init[i].k = kv[n].k}
         IN  IF at = {} THEN Append(init, kv[n])
             ELSE [init EXCEPT ![Least(at)] = kv[n]]

RECURSIVE ScanOnce(_, _), ScanArray(_, _, _), ScanObject(_, _, _), ObjectAfterKey(_, _, _)

\* scan_once of json.scanner
ScanOnce(s, i) ==
    LET c == At(s, i)
    IN  IF c = "" THEN Fail
        ELSE IF c = "\"" THEN ScanString(s, i)
        ELSE IF c = "{"
             THEN IF At(s, JsonSkip(s, i + 1)) = "}"
                  THEN Ok(MkDict(<<>>), JsonSkip(s, i + 1) + 1)
                  ELSE ScanObject(s, JsonSkip(s, i + 1), <<>>)
        ELSE IF c = "["
             THEN IF At(s, JsonSkip(s, i + 1)) = "]"
                  THEN Ok(MkList(<<>>), JsonSkip(s, i + 1) + 1)
                  ELSE ScanArray(s, JsonSkip(s, i + 1), <<>>)
        ELSE IF StartsWithAt(s, i, "null") THEN Ok(MkNull, i + 4)
        ELSE IF StartsWithAt(s, i, "true") THEN Ok(MkBool(TRUE), i + 4)
        ELSE IF StartsWithAt(s, i, "false") THEN Ok(MkBool(FALSE), i + 5)
        ELSE IF c = "-" /\ StartsWithAt(s, i, "-Infinity") THEN Ok(MkInf(TRUE), i + 9)
        ELSE IF c = "-" \/ IsDigit(c) THEN ScanNumber(s, i)
        ELSE IF StartsWithAt(s, i, "NaN") THEN Ok(MkNan, i + 3)
        ELSE IF StartsWithAt(s, i, "Infinity") THEN Ok(MkInf(FALSE), i + 8)
        ELSE Fail

\* JSONArray: i is where the next value starts, acc the values read so far.
ScanArray(s, i, acc) ==
    LET r == ScanOnce(s, i)
        k == JsonSkip(s, r.pos)
    IN  IF ~r.ok THEN Fail
        ELSE IF At(s, k) = "]" THEN Ok(MkList(Append(acc, r.val)), k + 1)
        ELSE IF At(s, k) = "," THEN ScanArray(s, JsonSkip(s, k + 1), Append(acc, r.val))
        ELSE Fail

\* JSONObject after a key has been read: the colon, the value, then the end
\* of the object or the next pair.
ObjectAfterKey(s, key, acc) ==
    LET colon == JsonSkip(s, key.pos)
        r == ScanOnce(s, JsonSkip(s, colon + 1))
        k == JsonSkip(s, r.pos)
        pairs == Append(acc, [k |-> key.val.s, val |-> r.val])
    IN  IF ~key.ok THEN Fail
        ELSE IF At(s, colon) # ":" THEN Fail
        ELSE IF ~r.ok THEN Fail
        ELSE IF At(s, k) = "}" THEN Ok(MkDict(DictItems(pairs)), k + 1)
        ELSE IF At(s, k) = "," THEN ScanObject(s, JsonSkip(s, k + 1), pairs)
        ELSE Fail

\* JSONObject: i is where the next key's quote must be, acc the pairs so far.
ScanObject(s, i, acc) ==
    IF At(s, i) # "\"" THEN Fail
    ELSE ObjectAfterKey(s, ScanString(s, i), acc)

\* What json.loads makes of the first value r of s: it must be all of s but
\* for white space.
WholeText(s, r) == IF r.ok /\ JsonSkip(s, r.pos) = Len(s) + 1 THEN r ELSE Fail

\* json.loads(s): leading white space, one value, trailing white space, end.
json_loads(s) == WholeText(s, ScanOnce(s, JsonSkip(s, 1)))

-----------------------------------------------------------------------------
(* str() and float() as the validation loop uses them, lines 146-147, 154-156 *)

\* repr of a finite float m / 10^e, for magnitudes Python prints without an
\* exponent.
FloatRepr(m, e) ==
    LET digits == NatToStr(IF m < 0 THEN -m ELSE m)
        padded == Repeat("0", e + 1 - Len(digits)) \o digits
        whole == SubSeq(padded, 1, Len(padded) - e)
        frac == IF e = 0 THEN "0" ELSE SubSeq(padded, Len(padded) - e + 1, Len(padded))
    IN  (IF m < 0 THEN "-" ELSE "") \o whole \o "." \o frac

\* repr of a str: single quotes unless the text holds ' and no ".
StrRepr(s) ==
    LET esc == Replace(Replace(Replace(Replace(s, "\\", "\\\\"), "\n", "\\n"), "\t", "\\t"),
                       "\r", "\\r")
    IN  IF Contains(s, "'") /\ ~Contains(s, "\"") THEN "\"" \o esc \o "\""
        ELSE "'" \o Replace(esc, "'", "\\'") \o "'"

RECURSIVE PyRepr(_), ReprAll(_), ReprPairs(_)

PyRepr(v) ==
    CASE v.t = "str" -> StrRepr(v.s)
      [] v.t = "int" -> IntToStr(v.m)
      [] v.t = "float" -> FloatRepr(v.m, v.e)
      [] v.t = "null" -> "None"
      [] v.t = "bool" -> IF v.m = 1 THEN "True" ELSE "False"
      [] v.t = "inf" -> IF v.m < 0 THEN "-inf" ELSE "inf"
      [] v.t = "nan" -> "nan"
      [] v.t = "list" -> "[" \o Join(ReprAll(v.v), ", ") \o "]"
      [] v.t = "dict" -> "{" \o Join(ReprPairs(v.v), ", ") \o "}"

ReprAll(vs) == IF vs = <<>> THEN <<>> ELSE <<PyRepr(vs[1])>> \o ReprAll(Tail(vs))

ReprPairs(kv) ==
    IF kv = <<>> THEN <<>>
    ELSE <<StrRepr(kv[1].k) \o ": " \o PyRepr(kv[1].val)>> \o ReprPairs(Tail(kv))

\* str(v)
PyStr(v) == IF v.t = "str" THEN v.s ELSE PyRepr(v)

LowerChar(c) ==
    CASE c = "I" -> "i" [] c = "N" -> "n" [] c = "F" -> "f" [] c = "T" -> "t"
      [] c = "Y" -> "y" [] c = "A" -> "a" [] OTHER -> c

RECURSIVE Lower(_)
Lower(s) == IF s = "" THEN "" ELSE LowerChar(At(s, 1)) \o Lower(From(s, 2))

\* float() of a text whose digits start at j, once the integer digits, the
\* fraction and the exponent are known to end at intEnd, fracEnd and expEnd.
\* ok is FALSE where Python raises ValueError.
FloatValue(s, neg, j, intEnd, fracEnd, expEnd) ==
    IF intEnd < j /\ FracLen(intEnd, fracEnd) = 0 THEN [ok |-> FALSE, val |-> Zero]
    ELSE IF expEnd # Len(s) THEN [ok |-> FALSE, val |-> Zero]
    ELSE [ok |-> TRUE,
          val |-> MkFloat((IF neg THEN -1 ELSE 1) * Mantissa(s, j, intEnd, fracEnd),
                          FracLen(intEnd, fracEnd) - Exponent(s, fracEnd, expEnd))]

\* float() after the integer digits j .. intEnd: an optional point with
\* optional digits, then the exponent.
FloatAfterInt(s, neg, j, intEnd, fracEnd) ==
    FloatValue(s, neg, j, intEnd, fracEnd, ExpEnd(s, fracEnd))

\* float() after the sign, the digits starting at j.
FloatAfterSign(s, neg, j, intEnd) ==
    FloatAfterInt(s, neg, j, intEnd,
                  IF At(s, intEnd + 1) = "." THEN DigitRunEnd(s, intEnd + 2) ELSE intEnd)

\* float() of a text without white space around: a sign, then inf, infinity or
\* nan in any case, or digits with an optional point and exponent (digit-group
\* underscores are not modelled).
FloatOf(s) ==
    LET neg == At(s, 1) = "-"
        j == IF At(s, 1) \in {"+", "-"} THEN 2 ELSE 1
        word == IF Len(s) - j < 8 THEN Lower(From(s, j)) ELSE ""
    IN  IF word \in {"inf", "infinity"} THEN [ok |-> TRUE, val |-> MkInf(neg)]
        ELSE IF word = "nan" THEN [ok |-> TRUE, val |-> MkNan]
        ELSE FloatAfterSign(s, neg, j, DigitRunEnd(s, j))

\* float(text)
PyFloat(text) == FloatOf(Strip(text))

-----------------------------------------------------------------------------
(* The validation loop, src/ocr_processor.py:139-157 *)

\* 'k' in item_data
HasKey(d, k) == \E i \in 1..Len(d.v) : d.v[i].k = k

\* item_data.get(k, default)
DictGet(d, k, default) ==
    LET at == {i \in 1..Len(d.v) : d.v[i].k = k}
    IN  IF at = {} THEN default ELSE d.v[Least(at)].val

\* The euro sign and the pound sign of line 146.  TLC keeps a string's
\* characters as bytes, so the two signs beyond ASCII are written with
\* characters that occur in no other role in the texts.
EuroSign == "~"

PoundSign == "&"

\* Faulty variant of StripCurrency: the dollar sign is left in place.
StripCurrencyKeepingDollar(text) ==
    Strip(Replace(Replace(text, EuroSign, ""), PoundSign, ""))

\* Line 146: the three currency symbols removed, then .strip().
StripCurrency(text) ==
    Strip(Replace(Replace(Replace(text, "$", ""), EuroSign, ""), PoundSign, ""))

\* Lines 147-151: the float, or 0.0 after a ValueError.
FloatOrZero(r) == IF r.ok THEN r.val ELSE Zero

\* Lines 142-151: null gives 0.0, a ValueError of float() gives 0.0.
ConvertPrice(price) ==
    IF price.t = "null" THEN Zero
    ELSE FloatOrZero(PyFloat(StripCurrency(PyStr(price))))

\* Faulty variant of IsConforming: the price key is not asked for.
IsConformingWithoutPrice(item_data) ==
    /\ item_data.t = "dict"
    /\ HasKey(item_data, "item")
    /\ HasKey(item_data, "category")

\* Line 141: the guard of the loop body.
IsConforming(item_data) ==
    /\ item_data.t = "dict"
    /\ HasKey(item_data, "item")
    /\ HasKey(item_data, "price")
    /\ HasKey(item_data, "category")

\* Lines 153-157: the LineItem appended for a conforming element.
LineItem(item_data) ==
    [item |-> PyStr(DictGet(item_data, "item", MkStr("Unknown"))),
     price |-> ConvertPrice(DictGet(item_data, "price", MkNull)),
     category |-> PyStr(DictGet(item_data, "category", MkStr("Uncategorized")))]

\* Faulty variant of ValidateItems: the loop ends at the first element that
\* does not conform.
RECURSIVE ValidateItemsUntilBad(_)
ValidateItemsUntilBad(items) ==
    IF items = <<>> \/ ~IsConforming(items[1]) THEN <<>>
    ELSE <<LineItem(items[1])>> \o ValidateItemsUntilBad(Tail(items))

\* Lines 139-157: the whole loop over categorized_items.
RECURSIVE ValidateItems(_)
ValidateItems(items) ==
    IF items = <<>> THEN <<>>
    ELSE (IF IsConforming(items[1]) THEN <<LineItem(items[1])>> ELSE <<>>)
             \o ValidateItems(Tail(items))

-----------------------------------------------------------------------------
(* The language-model client's replies, src/ocr_processor.py:103-108 *)

\* A JSON string literal for the text s (s holds no control characters).
JsonString(s) == "\"" \o Replace(Replace(s, "\\", "\\\\"), "\"", "\\\"") \o "\""

RECURSIVE JsonDump(_), DumpAll(_), DumpPairs(_)

\* The JSON text a well-behaved model writes for a value.
JsonDump(v) ==
    CASE v.t = "str" -> JsonString(v.s)
      [] v.t = "int" -> IntToStr(v.m)
      [] v.t = "float" -> FloatRepr(v.m, v.e)
      [] v.t = "null" -> "null"
      [] v.t = "bool" -> IF v.m = 1 THEN "true" ELSE "false"
      [] v.t = "list" -> "[" \o Join(DumpAll(v.v), ", ") \o "]"
      [] v.t = "dict" -> "{" \o Join(DumpPairs(v.v), ", ") \o "}"

DumpAll(vs) == IF vs = <<>> THEN <<>> ELSE <<JsonDump(vs[1])>> \o DumpAll(Tail(vs))

DumpPairs(kv) ==
    IF kv = <<>> THEN <<>>
    ELSE <<JsonString(kv[1].k) \o ": " \o JsonDump(kv[1].val)>> \o DumpPairs(Tail(kv))

Obj(item, price, category) ==
    MkDict(<<[k |-> "item", val |-> item], [k |-> "price", val |-> price],
             [k |-> "category", val |-> category]>>)

\* The elements a reply's array is built from.
ElementPool ==
    { Obj(MkStr("Milk"), MkFloat(399, 2), MkStr("Groceries")),
      Obj(MkStr("None"), MkInt(5), MkStr("Other")),
      Obj(MkStr("Rice, 1kg,, }"), MkFloat(25, 1), MkStr("Groceries")),
      Obj(MkStr("Soda"), MkNull, MkStr("Groceries")),
      Obj(MkStr("Cable"), MkStr("$12.50"), MkStr("Electronics")),
      Obj(MkStr("Tea"), MkStr(" 7 " \o EuroSign), MkStr("Groceries")),
      Obj(MkStr("Gum"), MkStr(PoundSign \o "0.5 "), MkStr("Groceries")),
      Obj(MkStr("Bag"), MkStr("N/A"), MkStr("Other")),
      MkDict(<<[k |-> "item", val |-> MkStr("Pen")], [k |-> "category", val |-> MkStr("Other")]>>),
      MkDict(<<[k |-> "price", val |-> MkInt(2)], [k |-> "category", val |-> MkStr("Other")]>>),
      MkStr("total") }

MaxElems == 2

RECURSIVE SeqsUpTo(_, _)
SeqsUpTo(S, n) ==
    IF n = 0 THEN {<<>>}
    ELSE LET shorter == SeqsUpTo(S, n - 1)
         IN  shorter \cup {Append(q, x) : q \in shorter, x \in S}

ArrayStub(elems) ==
    [kind |-> "array", elems |-> elems, text |-> JsonDump(MkList(elems))]

TextStub(text) == [kind |-> "text", elems |-> <<>>, text |-> text]

\* chat.completions.create raised (network, auth, quota).
FailStub == [kind |-> "fail", elems |-> <<>>, text |-> ""]

NoStub == [kind |-> "unset", elems |-> <<>>, text |-> ""]

ScenarioA ==
    "[{\"item\":\"Milk\",\"price\":3.99,\"category\":\"Groceries\"},"
        \o "{\"item\":\"Bread\",\"price\":2.50,\"category\":\"Groceries\"}]"

ScenarioB ==
    "Here you go: [{'item': 'Soda', 'price': missing (cannot extract price), "
        \o "'category': 'Groceries'}] Enjoy!"

Prose == "Sorry, I could not read this receipt."

BrokenJson == "[{\"item\": \"Pen\", \"price\": , \"category\": \"Other\"}]"

TextReplies ==
    { ScenarioA, ScenarioB, "[]", Prose, BrokenJson,
      "  {\"item\": \"Tea\", \"price\": 4, \"category\": \"Groceries\"}\n",
      "{\"item\": \"Tea\", \"price\": 4, \"category\": \"a\"} and {\"item\": \"Pen\", \"price\": 2, \"category\": \"b\"}",
      "[{'item': 'Pen', 'price': None, 'category': 'Other',},]",
      "[{\"item\": \"Pen\", \"price\": 2, \"category\": \"Other\"}] // total 2",
      "[\n  {\"item\": \"Pen\", /* guess */ \"price\": 2.0, \"category\": \"Other\"},\n]",
      "See note [1] for details.",
      "Nothing ] to [ report } here {.",
      "[{\"item\": \"Refund\", \"price\": -3, \"category\": \"Other\"}]",
      "[{\"item\": \"Gift\", \"price\": \"inf\", \"category\": \"Other\"}, "
          \o "{\"item\": \"Tip\", \"price\": NaN, \"category\": \"Other\"}]",
      "[{\"item\": \"Pen\", \"price\": 2, \"category\": \"Other\"}] (see [note])" }

\* The objects of a reply written the Python way, the price not extracted.
QuotedPool ==
    { Obj(MkStr("Soda"), MkNull, MkStr("Groceries")),
      Obj(MkStr("Tea bags"), MkNull, MkStr("Other")) }

\* An object with single-quoted keys and texts, the phrase in place of its price.
QuotedObject(x) ==
    "{'item': '" \o DictGet(x, "item", MkNull).s
        \o "', 'price': missing (cannot extract price), 'category': '"
        \o DictGet(x, "category", MkNull).s \o "'}"

RECURSIVE QuotedAll(_)
QuotedAll(elems) ==
    IF elems = <<>> THEN <<>> ELSE <<QuotedObject(elems[1])>> \o QuotedAll(Tail(elems))

\* What stands before and after the array of such a reply.
ProseAround == {<<"Here you go: ", " Enjoy!">>, <<"Items:\n", "">>}

\* A reply of prose around an array of such objects.
QuotedStub(elems, prose) ==
    [kind |-> "quoted", elems |-> elems,
     text |-> prose[1] \o "[" \o Join(QuotedAll(elems), ", ") \o "]" \o prose[2]]

StubsRich ==
    {FailStub} \cup {TextStub(t) : t \in TextReplies}
        \cup {ArrayStub(q) : q \in SeqsUpTo(ElementPool, MaxElems)}

\* The replies that try the search for the array and its repair: the texts,
\* the shorter arrays, the arrays written the Python way.
StubsReplies ==
    {FailStub} \cup {TextStub(t) : t \in TextReplies}
        \cup {ArrayStub(q) : q \in SeqsUpTo(ElementPool, MaxElems - 1)}
        \cup {QuotedStub(q, p) : q \in SeqsUpTo(QuotedPool, MaxElems) \ {<<>>},
                                  p \in ProseAround}

StubsFew == {FailStub, TextStub(Prose), TextStub(ScenarioA)}

-----------------------------------------------------------------------------
(* The OCR engine's outputs, src/ocr_processor.py:74-75 *)

psm_modes == <<6, 3, 4, 11, 12, 1>>

Threshold == 50

OcrRich ==
    {"  ", " ab\n", "cd", Repeat("a", Threshold), Repeat("b", Threshold + 1)}

OcrFew == {"\n", " Milk 3.99 Dairy\nBread 2.50 Bakery " \o Repeat(".", Threshold)}

-----------------------------------------------------------------------------
(* process_receipt, src/ocr_processor.py:55-169 *)

Images == {"missing", "undecodable", "ok"}

\* os.path.exists(image_path), line 61
PathExists(img) == img # "missing"

\* Faulty variant of ImreadOk: every file that exists decodes.
ImreadAlwaysOk(img) == TRUE

\* cv2.imread(image_path) is not None, lines 15-16
ImreadOk(img) == img = "ok"

\* Faulty variant of OcrText: the engine's output is not trimmed.
OcrTextUntrimmed(raw) == raw

\* Line 75: the text of one profile run.
OcrText(raw) == Strip(raw)

\* Faulty variant of Longer: a text of equal length replaces the best so far.
LongerOrEqual(text, best) == Len(text) >= Len(best)

\* Line 76: whether text replaces the best so far.
Longer(text, best) == Len(text) > Len(best)

\* Faulty variant of GoodEnough: a text of exactly Threshold characters ends the
\* loop.
GoodEnoughAtThreshold(best) == Len(best) >= Threshold

\* Line 78: whether the best so far ends the loop.
GoodEnough(best) == Len(best) > Threshold

\* Faulty variant of Failure: a failure is reported as an empty list.
FailureAsEmptyList == [kind |-> "list", items |-> <<>>]

\* return None
Failure == [kind |-> "None", items |-> <<>>]

\* An exception that leaves process_receipt (the OCR loop stands before the try
\* of line 101).
Raised == [kind |-> "raise", items |-> <<>>]

Unset == [kind |-> "unset", items |-> <<>>]

\* MainWindow.INITIAL_CREDITS, also the default of ChatWidget.__init__
INITIAL_CREDITS == 500

\* ChatWidget.MODEL_OPTIONS: the models in the order of the combo box, each
\* with its cost.
MODEL_OPTIONS ==
    <<[name |-> "Expert (100 credits)", cost |-> 100],
      [name |-> "Advanced (10 credits)", cost |-> 10],
      [name |-> "Basic (Free)", cost |-> 0]>>

\* MODEL_OPTIONS[key]["cost"]
CostOf(key) ==
    MODEL_OPTIONS[CHOOSE i \in 1..Len(MODEL_OPTIONS) : MODEL_OPTIONS[i].name = key].cost

\* MainWindow.__init__ and ChatWidget.__init__: both counters at the initial
\* credits, the first model selected, input and Send button usable.
ChatInit ==
    /\ main_credits = INITIAL_CREDITS
    /\ chat_credits = INITIAL_CREDITS
    /\ model_name = MODEL_OPTIONS[1].name
    /\ input_enabled = TRUE
    /\ send_enabled = (INITIAL_CREDITS >= MODEL_OPTIONS[1].cost)
    /\ last = [kind |-> "none", model |-> "", reply |-> ""]

\* OCRWidget.__init__ and _init_ui: nothing selected, only the select button
\* usable, no worker, an empty table.
WidgetInit ==
    /\ selected_image = "none"
    /\ process_enabled = FALSE
    /\ select_enabled = TRUE
    /\ dialog_open = FALSE
    /\ ocr_thread = 0
    /\ runs = <<>>
    /\ events = <<>>
    /\ table = 0
    /\ boxes = {}

\* The call's own state at its entry, for the given image.
Entry(img) ==
    /\ image = img
    /\ pc = "exists"
    /\ psm_idx = 1
    /\ attempts = <<>>
    /\ extracted_text = ""
    /\ stub = NoStub
    /\ response_content = ""
    /\ json_str = ""
    /\ valid_json_str = ""
    /\ categorized_items = <<>>
    /\ processed_items = <<>>
    /\ result = Unset
    /\ returned_at = 0
    /\ printed = ""
    /\ ocr_calls = 0
    /\ llm_calls = 0
    /\ search_calls = 0
    /\ repair_calls = 0
    /\ parse_calls = 0

\* One call of process_receipt, made with a client, the widget at rest.
Init ==
    /\ \E img \in Images : Entry(img)
    /\ client = TRUE
    /\ WidgetInit
    /\ ChatInit

\* A return statement at the given source line, after the given diagnostic.
Return(value, line, message) ==
    /\ result' = value
    /\ returned_at' = line
    /\ printed' = message
    /\ pc' = "done"

\* Lines 60-63
CheckExists ==
    /\ pc = "exists"
    /\ IF PathExists(image)
       THEN pc' = "preprocess" /\ UNCHANGED <<result, returned_at, printed>>
       ELSE Return(Failure, 63, "Image file not found")
    /\ UNCHANGED <<image, psm_idx, attempts, extracted_text, stub, response_content,
                   json_str, valid_json_str, categorized_items, processed_items,
                   ocr_calls, llm_calls, search_calls, repair_calls, parse_calls>>
    /\ UNCHANGED <<uiVars, chatVars>>

\* Lines 65-72 (with preprocess_image_for_ocr, lines 14-34)
Preprocess ==
    /\ pc = "preprocess"
    /\ IF ImreadOk(image)
       THEN pc' = "ocr" /\ UNCHANGED <<result, returned_at, printed>>
       ELSE Return(Failure, 68, "Preprocessing failed.")
    /\ extracted_text' = ""
    /\ psm_idx' = 1
    /\ UNCHANGED <<image, attempts, stub, response_content,
                   json_str, valid_json_str, categorized_items, processed_items,
                   ocr_calls, llm_calls, search_calls, repair_calls, parse_calls>>
    /\ UNCHANGED <<uiVars, chatVars>>

\* Lines 73-79: one iteration of the loop over psm_modes, the OCR engine
\* answering with one of Outputs.
OcrProfile(Outputs) ==
    /\ pc = "ocr"
    /\ \E raw \in Outputs :
        LET text == OcrText(raw)
            best == IF Longer(text, extracted_text) THEN text ELSE extracted_text
        IN  /\ attempts' = Append(attempts, [psm |-> psm_modes[psm_idx], raw |-> raw])
            /\ extracted_text' = best
            /\ IF GoodEnough(best) \/ psm_idx = Len(psm_modes)
               THEN pc' = "check_text" /\ psm_idx' = psm_idx
               ELSE pc' = "ocr" /\ psm_idx' = psm_idx + 1
    /\ ocr_calls' = ocr_calls + 1
    /\ UNCHANGED <<image, stub, response_content, json_str, valid_json_str,
                   categorized_items, processed_items, result, returned_at, printed,
                   llm_calls, search_calls, repair_calls, parse_calls>>
    /\ UNCHANGED <<uiVars, chatVars>>

\* Line 75: pytesseract.image_to_string raises (engine missing or failing); no
\* handler of process_receipt catches it.
OcrRaises ==
    /\ pc = "ocr"
    /\ Return(Raised, 75, "")
    /\ ocr_calls' = ocr_calls + 1
    /\ UNCHANGED <<image, psm_idx, attempts, extracted_text, stub, response_content,
                   json_str, valid_json_str, categorized_items, processed_items,
                   llm_calls, search_calls, repair_calls, parse_calls>>
    /\ UNCHANGED <<uiVars, chatVars>>

\* Lines 81-85
CheckText ==
    /\ pc = "check_text"
    /\ IF extracted_text = ""
       THEN Return(Failure, 83, "OCR failed to extract text.")
       ELSE pc' = "llm" /\ UNCHANGED <<result, returned_at, printed>>
    /\ UNCHANGED <<image, psm_idx, attempts, extracted_text, stub, response_content,
                   json_str, valid_json_str, categorized_items, processed_items,
                   ocr_calls, llm_calls, search_calls, repair_calls, parse_calls>>
    /\ UNCHANGED <<uiVars, chatVars>>

\* Faulty variant of CallModel: a first request that raises is sent again.
CallModelRetrying(Stubs) ==
    /\ pc = "llm"
    /\ \E st \in Stubs :
        /\ stub' = st
        /\ IF st.kind = "fail"
           THEN /\ IF llm_calls = 0
                   THEN pc' = "llm" /\ UNCHANGED <<result, returned_at, printed>>
                   ELSE Return(Failure, 169, "Error during LLM call or JSON parsing")
                /\ UNCHANGED response_content
           ELSE /\ response_content' = Strip(st.text)
                /\ pc' = "locate"
                /\ printed' = "LLM Response"
                /\ UNCHANGED <<result, returned_at>>
    /\ llm_calls' = llm_calls + 1
    /\ UNCHANGED <<image, psm_idx, attempts, extracted_text, json_str, valid_json_str,
                   categorized_items, processed_items,
                   ocr_calls, search_calls, repair_calls, parse_calls>>
    /\ UNCHANGED <<uiVars, chatVars>>

\* Lines 102-109 and, for a call that raises, 165-169: the one request, the
\* client answering with one of Stubs.
CallModel(Stubs) ==
    /\ pc = "llm"
    /\ \E st \in Stubs :
        /\ stub' = st
        /\ IF st.kind = "fail"
           THEN /\ Return(Failure, 169, "Error during LLM call or JSON parsing")
                /\ UNCHANGED response_content
           ELSE /\ response_content' = Strip(st.text)
                /\ pc' = "locate"
                /\ printed' = "LLM Response"
                /\ UNCHANGED <<result, returned_at>>
    /\ llm_calls' = llm_calls + 1
    /\ UNCHANGED <<image, psm_idx, attempts, extracted_text, json_str, valid_json_str,
                   categorized_items, processed_items,
                   ocr_calls, search_calls, repair_calls, parse_calls>>
    /\ UNCHANGED <<uiVars, chatVars>>

\* Lines 112-129
Locate ==
    /\ pc = "locate"
    /\ response_content' = LocateArray(response_content).content
    /\ json_str' = LocateJson(response_content)
    /\ IF json_str' = ""
       THEN Return(Failure, 127, "No JSON array found in LLM response.")
       ELSE pc' = "repair" /\ UNCHANGED <<result, returned_at, printed>>
    /\ search_calls' = search_calls + 1
    /\ UNCHANGED <<image, psm_idx, attempts, extracted_text, stub, valid_json_str,
                   categorized_items, processed_items,
                   ocr_calls, llm_calls, repair_calls, parse_calls>>
    /\ UNCHANGED <<uiVars, chatVars>>

\* Lines 131-134
Repair ==
    /\ pc = "repair"
    /\ valid_json_str' = convert_to_valid_json(json_str)
    /\ IF valid_json_str' = ""
       THEN Return(Failure, 134, "Failed to convert to valid JSON.")
       ELSE pc' = "parse" /\ UNCHANGED <<result, returned_at, printed>>
    /\ repair_calls' = repair_calls + 1
    /\ UNCHANGED <<image, psm_idx, attempts, extracted_text, stub, response_content,
                   json_str, categorized_items, processed_items,
                   ocr_calls, llm_calls, search_calls, parse_calls>>
    /\ UNCHANGED <<uiVars, chatVars>>

\* What "for item_data in x" walks through: a list's elements, a dict's keys,
\* a str's characters; ok is FALSE where Python raises TypeError.
Iterate(x) ==
    CASE x.t = "list" -> [ok |-> TRUE, items |-> x.v]
      [] x.t = "dict" -> [ok |-> TRUE, items |-> [i \in 1..Len(x.v) |-> MkStr(x.v[i].k)]]
      [] x.t = "str" -> [ok |-> TRUE, items |-> [i \in 1..Len(x.s) |-> MkStr(At(x.s, i))]]
      [] OTHER -> [ok |-> FALSE, items |-> <<>>]

\* Faulty variant of Parse: a text json.loads rejects is repaired once more.
ParseRepairingAgain ==
    /\ pc = "parse"
    /\ \E r \in {json_loads(valid_json_str)} :
        \E walk \in {Iterate(r.val)} :
            IF r.ok /\ walk.ok
            THEN /\ categorized_items' = walk.items
                 /\ pc' = "validate"
                 /\ UNCHANGED <<result, returned_at, printed>>
            ELSE /\ IF repair_calls < 2
                    THEN pc' = "repair" /\ UNCHANGED <<result, returned_at, printed>>
                    ELSE Return(Failure, 169, "Error during LLM call or JSON parsing")
                 /\ UNCHANGED categorized_items
    /\ parse_calls' = parse_calls + 1
    /\ UNCHANGED <<image, psm_idx, attempts, extracted_text, stub, response_content,
                   json_str, valid_json_str, processed_items,
                   ocr_calls, llm_calls, search_calls, repair_calls>>
    /\ UNCHANGED <<uiVars, chatVars>>

\* Line 136 and, for a text json.loads rejects, lines 165-169
Parse ==
    /\ pc = "parse"
    /\ \E r \in {json_loads(valid_json_str)} :
        \E walk \in {Iterate(r.val)} :
            IF r.ok /\ walk.ok
            THEN /\ categorized_items' = walk.items
                 /\ pc' = "validate"
                 /\ UNCHANGED <<result, returned_at, printed>>
            ELSE /\ Return(Failure, 169, "Error during LLM call or JSON parsing")
                 /\ UNCHANGED categorized_items
    /\ parse_calls' = parse_calls + 1
    /\ UNCHANGED <<image, psm_idx, attempts, extracted_text, stub, response_content,
                   json_str, valid_json_str, processed_items,
                   ocr_calls, llm_calls, search_calls, repair_calls>>
    /\ UNCHANGED <<uiVars, chatVars>>

\* Lines 139-157
Validate ==
    /\ pc = "validate"
    /\ processed_items' = ValidateItems(categorized_items)
    /\ pc' = "return"
    /\ UNCHANGED <<image, psm_idx, attempts, extracted_text, stub, response_content,
                   json_str, valid_json_str, categorized_items, result, returned_at,
                   printed, ocr_calls, llm_calls, search_calls, repair_calls, parse_calls>>
    /\ UNCHANGED <<uiVars, chatVars>>

\* Faulty variant of ReturnItems: the list is returned even when it is empty.
ReturnItemsAlways ==
    /\ pc = "return"
    /\ Return([kind |-> "list", items |-> processed_items], 163, printed)
    /\ UNCHANGED <<image, psm_idx, attempts, extracted_text, stub, response_content,
                   json_str, valid_json_str, categorized_items, processed_items,
                   ocr_calls, llm_calls, search_calls, repair_calls, parse_calls>>
    /\ UNCHANGED <<uiVars, chatVars>>

\* Lines 159-163
ReturnItems ==
    /\ pc = "return"
    /\ IF processed_items = <<>>
       THEN Return(Failure, 161, "No valid items extracted after processing.")
       ELSE Return([kind |-> "list", items |-> processed_items], 163, printed)
    /\ UNCHANGED <<image, psm_idx, attempts, extracted_text, stub, response_content,
                   json_str, valid_json_str, categorized_items, processed_items,
                   ocr_calls, llm_calls, search_calls, repair_calls, parse_calls>>
    /\ UNCHANGED <<uiVars, chatVars>>

\* One receipt, the OCR engine terse and the model's replies varied.
Next ==
    \/ CheckExists
    \/ Preprocess
    \/ OcrProfile(OcrFew)
    \/ OcrRaises
    \/ CheckText
    \/ CallModel(StubsRich)
    \/ Locate
    \/ Repair
    \/ Parse
    \/ Validate
    \/ ReturnItems

Spec == Init /\ [][Next]_vars

\* One receipt, the OCR engine's outputs varied and the model's replies few.
NextOCR ==
    \/ CheckExists
    \/ Preprocess
    \/ OcrProfile(OcrRich)
    \/ OcrRaises
    \/ CheckText
    \/ CallModel(StubsFew)
    \/ Locate
    \/ Repair
    \/ Parse
    \/ Validate
    \/ ReturnItems

SpecOCR == Init /\ [][NextOCR]_vars

\* One receipt, the OCR engine terse and the model's replies those that try
\* the search for the array and its repair.
NextReplies ==
    \/ CheckExists
    \/ Preprocess
    \/ OcrProfile(OcrFew)
    \/ OcrRaises
    \/ CheckText
    \/ CallModel(StubsReplies)
    \/ Locate
    \/ Repair
    \/ Parse
    \/ Validate
    \/ ReturnItems

SpecReplies == Init /\ [][NextReplies]_vars

-----------------------------------------------------------------------------
(* The OCR widget, src/ui/ocr_widget.py *)

\* The widget lives in the GUI thread, each OCRWorker in a thread of its own.
\* A signal emitted by a worker reaches its slot as an event queued to the GUI
\* thread; the user's clicks reach their slots through the same queue.  The
\* GUI thread takes the events in the order they were queued and runs one slot
\* to its end before the next.  A message box a slot opens is dismissed
\* before the slot goes on.

MaxRuns == 2

MaxPending == 2

\* What a call of process_receipt gives its caller: a list of items, None, or
\* an exception (the kinds of the variable result above).
Outcomes == {"list", "None", "raise"}

\* The choices of the file dialog of line 79: none, a file QPixmap cannot
\* load, a file it can.
Files == {"", "unreadable", "shown"}

Event(type, run, results) == [type |-> type, run |-> run, results |-> results]

Box(kind, run) == [kind |-> kind, run |-> run]

Post(e) == events' = Append(events, e)

\* QThread.isRunning(): started, and run() not yet left or the thread not
\* yet wound down after it.
isRunning(r) == runs[r].state \in {"running", "emitted"}

\* A started OCRWorker: the state of its thread, the slots that have run for
\* it, in order, and whether _cancel_ocr has run for it.
Worker == [state |-> "running", ended |-> <<>>, cancelled |-> FALSE]

\* The user clicks a button that is on screen and not behind the dialog.
ClickSelect ==
    /\ ~dialog_open
    /\ select_enabled
    /\ Len(events) < MaxPending
    /\ Post(Event("select", 0, ""))
    /\ UNCHANGED <<client, selected_image, process_enabled, select_enabled,
                   dialog_open, ocr_thread, runs, table, boxes>>
    /\ UNCHANGED <<receiptVars, chatVars>>

ClickProcess ==
    /\ ~dialog_open
    /\ process_enabled
    /\ Len(events) < MaxPending
    /\ Len(runs) + Cardinality({i \in 1..Len(events) : events[i].type = "process"})
           < MaxRuns
    /\ Post(Event("process", 0, ""))
    /\ UNCHANGED <<client, selected_image, process_enabled, select_enabled,
                   dialog_open, ocr_thread, runs, table, boxes>>
    /\ UNCHANGED <<receiptVars, chatVars>>

\* The Cancel button of the progress dialog of line 108.
ClickCancel ==
    /\ dialog_open
    /\ Len(events) < MaxPending
    /\ Post(Event("cancel", 0, ""))
    /\ UNCHANGED <<client, selected_image, process_enabled, select_enabled,
                   dialog_open, ocr_thread, runs, table, boxes>>
    /\ UNCHANGED <<receiptVars, chatVars>>

\* A click whose button is disabled, gone or behind the dialog by the time
\* the GUI thread takes it reaches no slot.
Reaches(e) ==
    CASE e.type = "select" -> select_enabled /\ ~dialog_open
      [] e.type = "process" -> process_enabled /\ ~dialog_open
      [] e.type = "cancel" -> dialog_open
      [] OTHER -> TRUE

DropClick ==
    /\ events # <<>>
    /\ ~Reaches(Head(events))
    /\ events' = Tail(events)
    /\ UNCHANGED <<client, selected_image, process_enabled, select_enabled,
                   dialog_open, ocr_thread, runs, table, boxes>>
    /\ UNCHANGED <<receiptVars, chatVars>>

\* _select_image, lines 78-93
select_image ==
    /\ events # <<>>
    /\ Head(events).type = "select"
    /\ Reaches(Head(events))
    /\ events' = Tail(events)
    /\ \E file_path \in Files :
        IF file_path # ""
        THEN /\ selected_image' = file_path
             /\ process_enabled' = (file_path = "shown")
             /\ table' = 0
        ELSE UNCHANGED <<selected_image, process_enabled, table>>
    /\ UNCHANGED <<client, select_enabled, dialog_open, ocr_thread, runs, boxes>>
    /\ UNCHANGED <<receiptVars, chatVars>>

\* _start_ocr_processing, lines 95-118
start_ocr_processing ==
    /\ events # <<>>
    /\ Head(events).type = "process"
    /\ Reaches(Head(events))
    /\ events' = Tail(events)
    /\ IF selected_image = "none"
       THEN /\ boxes' = boxes \cup {Box("No Image", 0)}
            /\ UNCHANGED <<process_enabled, select_enabled, table, dialog_open,
                           ocr_thread, runs>>
       ELSE IF ~client
       THEN /\ boxes' = boxes \cup {Box("API Error", 0)}
            /\ UNCHANGED <<process_enabled, select_enabled, table, dialog_open,
                           ocr_thread, runs>>
       ELSE /\ process_enabled' = FALSE
            /\ select_enabled' = FALSE
            /\ table' = 0
            /\ runs' = Append(runs, Worker)
            /\ ocr_thread' = Len(runs) + 1
            /\ dialog_open' = TRUE
            /\ UNCHANGED boxes
    /\ UNCHANGED <<client, selected_image>>
    /\ UNCHANGED <<receiptVars, chatVars>>

\* OCRWorker.run, lines 23-32, in the worker's thread: the signal it emits
\* is queued to the GUI thread.
OCRWorker_run(r) ==
    /\ runs[r].state = "running"
    /\ \E results \in Outcomes :
        IF ~client \/ results = "raise"
        THEN Post(Event("error", r, ""))
        ELSE Post(Event("finished", r, results))
    /\ runs' = [runs EXCEPT ![r].state = "emitted"]
    /\ UNCHANGED <<client, selected_image, process_enabled, select_enabled,
                   dialog_open, ocr_thread, table, boxes>>
    /\ UNCHANGED <<receiptVars, chatVars>>

\* run() has returned and the worker's thread ends.
WorkerExits(r) ==
    /\ runs[r].state = "emitted"
    /\ runs' = [runs EXCEPT ![r].state = "finished"]
    /\ UNCHANGED <<client, selected_image, process_enabled, select_enabled,
                   dialog_open, ocr_thread, events, table, boxes>>
    /\ UNCHANGED <<receiptVars, chatVars>>

\* _on_ocr_finished, lines 121-137
on_ocr_finished ==
    /\ events # <<>>
    /\ Head(events).type = "finished"
    /\ events' = Tail(events)
    /\ dialog_open' = FALSE
    /\ process_enabled' = TRUE
    /\ select_enabled' = TRUE
    /\ IF Head(events).results = "list"
       THEN /\ table' = Head(events).run
            /\ boxes' = boxes \cup {Box("Success", Head(events).run)}
       ELSE /\ table' = 0
            /\ boxes' = boxes \cup {Box("OCR Failed", Head(events).run)}
    /\ ocr_thread' = 0
    /\ runs' = [runs EXCEPT ![Head(events).run].ended = Append(@, "finished")]
    /\ UNCHANGED <<client, selected_image>>
    /\ UNCHANGED <<receiptVars, chatVars>>

\* _on_ocr_error, lines 140-145
on_ocr_error ==
    /\ events # <<>>
    /\ Head(events).type = "error"
    /\ events' = Tail(events)
    /\ dialog_open' = FALSE
    /\ process_enabled' = TRUE
    /\ select_enabled' = TRUE
    /\ boxes' = boxes \cup {Box("OCR Error", Head(events).run)}
    /\ ocr_thread' = 0
    /\ runs' = [runs EXCEPT ![Head(events).run].ended = Append(@, "error")]
    /\ UNCHANGED <<client, selected_image, table>>
    /\ UNCHANGED <<receiptVars, chatVars>>

\* _cancel_ocr, lines 147-155, the slot of the dialog's canceled signal.
cancel_ocr ==
    /\ events # <<>>
    /\ Head(events).type = "cancel"
    /\ Reaches(Head(events))
    /\ events' = Tail(events)
    /\ IF ocr_thread # 0
       THEN IF isRunning(ocr_thread)
            THEN /\ runs' = [runs EXCEPT ![ocr_thread].state = "terminated",
                                         ![ocr_thread].ended = Append(@, "cancel"),
                                         ![ocr_thread].cancelled = TRUE]
                 /\ boxes' = boxes \cup {Box("Cancelled", ocr_thread)}
            ELSE /\ runs' = [runs EXCEPT ![ocr_thread].ended = Append(@, "cancel"),
                                         ![ocr_thread].cancelled = TRUE]
                 /\ UNCHANGED boxes
       ELSE UNCHANGED <<runs, boxes>>
    /\ dialog_open' = FALSE
    /\ process_enabled' = TRUE
    /\ select_enabled' = TRUE
    /\ ocr_thread' = 0
    /\ UNCHANGED <<client, selected_image, table>>
    /\ UNCHANGED <<receiptVars, chatVars>>

\* The widget at rest, with or without a Groq client, and no call under way.
InitUI ==
    /\ Entry("ok")
    /\ client \in BOOLEAN
    /\ WidgetInit
    /\ ChatInit

NextUI ==
    \/ ClickSelect
    \/ ClickProcess
    \/ ClickCancel
    \/ DropClick
    \/ select_image
    \/ start_ocr_processing
    \/ \E r \in 1..Len(runs) : OCRWorker_run(r)
    \/ \E r \in 1..Len(runs) : WorkerExits(r)
    \/ on_ocr_finished
    \/ on_ocr_error
    \/ cancel_ocr

SpecUI == InitUI /\ [][NextUI]_vars

\* The GUI thread's event loop takes every queued event in the end, and a
\* call of process_receipt comes back: the widget under a fair scheduler.
FairUI ==
    /\ SpecUI
    /\ WF_vars(DropClick)
    /\ WF_vars(select_image)
    /\ WF_vars(start_ocr_processing)
    /\ WF_vars(on_ocr_finished)
    /\ WF_vars(on_ocr_error)
    /\ WF_vars(cancel_ocr)
    /\ \A r \in 1..MaxRuns : WF_vars(r \in 1..Len(runs) /\ OCRWorker_run(r))

-----------------------------------------------------------------------------
(* The chat page and its credits, src/ui/chat_widget.py and src/ui/main_window.py *)

\* The signal message_sent is connected within one thread, so its slot
\* _handle_message_sent runs inside _send_message, at the emit of line 134;
\* the model call of line 140 blocks the GUI thread, so no other chat event
\* comes in between.

\* What the model function of an entry gives (src/llm_clients.py): an
\* answer; from the two remote models also a text that reports an error; from
\* query_groq also None, the content of a message without text, which line 99
\* cannot append.
Replies(key) ==
    IF key = MODEL_OPTIONS[1].name THEN {"answer", "error", "None"}
    ELSE IF key = MODEL_OPTIONS[2].name THEN {"answer", "error"}
    ELSE {"answer"}

\* Faulty variant of Affordable: any balance above zero will do.
AffordableWhenPositive(credits, cost) == credits > 0

\* The test of lines 123 and 156, also that of line 84 of main_window.py.
Affordable(credits, cost) == credits >= cost

\* _on_model_changed, lines 76-81: another entry of the combo box is chosen.
on_model_changed ==
    /\ \E i \in 1..Len(MODEL_OPTIONS) :
          /\ MODEL_OPTIONS[i].name # model_name
          /\ model_name' = MODEL_OPTIONS[i].name
          /\ send_enabled' = Affordable(chat_credits, MODEL_OPTIONS[i].cost)
          /\ last' = [kind |-> "switch", model |-> MODEL_OPTIONS[i].name, reply |-> ""]
    /\ UNCHANGED <<main_credits, chat_credits, input_enabled>>
    /\ UNCHANGED <<receiptVars, uiVars>>

\* _handle_message_sent of main_window.py, lines 82-91, with
\* update_internal_credits of chat_widget.py, lines 149-151, which it calls.
handle_message_sent(cost) ==
    IF Affordable(main_credits, cost)
    THEN /\ main_credits' = main_credits - cost
         /\ chat_credits' = main_credits - cost
    ELSE UNCHANGED <<main_credits, chat_credits>>

\* _send_message, lines 114-147: the Send button is clicked, or Return is
\* pressed in the input line, with or without a text in it.
send_message ==
    /\ send_enabled \/ input_enabled
    /\ \E user_message \in (IF input_enabled THEN {"", "How do I save?"} ELSE {""}) :
          IF user_message = ""
          THEN /\ last' = [kind |-> "empty", model |-> model_name, reply |-> ""]
               /\ UNCHANGED <<main_credits, chat_credits, input_enabled, send_enabled>>
          ELSE IF ~Affordable(chat_credits, CostOf(model_name))
          THEN /\ last' = [kind |-> "refused", model |-> model_name, reply |-> ""]
               /\ UNCHANGED <<main_credits, chat_credits, input_enabled, send_enabled>>
          ELSE \E reply \in Replies(model_name) :
               /\ handle_message_sent(CostOf(model_name))
               /\ input_enabled' = (reply # "None")
               \* line 145 sets the button when the reply could be shown;
               \* otherwise it is as update_internal_credits set it, or off,
               \* as line 131 set it, when the slot took no credits
               /\ send_enabled' =
                      IF reply # "None" \/ Affordable(main_credits, CostOf(model_name))
                      THEN Affordable(chat_credits', CostOf(model_name))
                      ELSE FALSE
               /\ last' = [kind |-> "accepted", model |-> model_name, reply |-> reply]
    /\ UNCHANGED model_name
    /\ UNCHANGED <<receiptVars, uiVars>>

\* The chat page at rest, no receipt under way.
InitChat ==
    /\ Entry("ok")
    /\ client = TRUE
    /\ WidgetInit
    /\ ChatInit

NextChat ==
    \/ on_model_changed
    \/ send_message

SpecChat == InitChat /\ [][NextChat]_vars

-----------------------------------------------------------------------------
(* Properties of process_receipt *)

\* The call returned through one of the function's own return statements.
Returned == pc = "done" /\ returned_at # 75

\* The OCR loop of lines 73-79 is over and the call went on to line 81.
LoopEnded ==
    \/ pc \in {"check_text", "llm", "locate", "repair", "parse", "validate", "return"}
    \/ pc = "done" /\ returned_at \notin {63, 68, 75}

\* The trimmed text of the k-th profile run.
TextOf(k) == Strip(attempts[k].raw)

\* The greatest trimmed length among the first k profile runs.
MaxLenUpTo(k) == Greatest({Len(TextOf(j)) : j \in 1..k} \cup {0})

\* The first profile run after which the best text has n characters or more,
\* 0 when there is none.
FirstReaching(n) ==
    LET at == {k \in 1..Len(attempts) : MaxLenUpTo(k) >= n}
    IN  IF at = {} THEN 0 ELSE Least(at)

\* The earliest profile run whose trimmed text is as long as any run's.
EarliestLongest ==
    Least({k \in 1..Len(attempts) : Len(TextOf(k)) = MaxLenUpTo(Len(attempts))})

\* Every profile run so far gave nothing but white space.
AllEmpty == attempts # <<>> /\ \A k \in 1..Len(attempts) : TextOf(k) = ""

\* x is an object holding the keys item, price and category.
HasAllKeys(x) ==
    /\ x.t = "dict"
    /\ \A key \in {"item", "price", "category"} : \E i \in 1..Len(x.v) : x.v[i].k = key

\* The value an object holds under key.
ValueOf(x, key) == x.v[CHOOSE i \in 1..Len(x.v) : x.v[i].k = key].val

\* The parsed elements that hold all three keys, in order.
Emitted == SelectSeq(categorized_items, HasAllKeys)

\* The validation loop of lines 139-157 has run.
Validated == pc = "return" \/ (pc = "done" /\ returned_at \in {161, 163})

\* C1: a call whose image path is missing or whose image cannot be decoded
\* ends, at line 63 or 68, with the failure value, and at no time during the
\* call is the OCR engine or the language model invoked.
C1_ImageFailureAbortsAll ==
    image # "ok" =>
        /\ pc \in {"exists", "preprocess", "done"}
        /\ ocr_calls = 0
        /\ llm_calls = 0
        /\ pc = "done" => result.kind = "None" /\ returned_at \in {63, 68}

\* An undecodable image has been refused.
C1_Witness == pc = "done" /\ image = "undecodable" /\ returned_at = 68

\* C2 as stated: the returned value tells the failing stage, so the value a
\* failure of the image stage returns is returned by no failure of another
\* stage.
C2_ValueTellsTheStage ==
    Returned /\ result.kind = "None" => returned_at \in {63, 68}

\* C2, amended: the call stops at the first failing stage, no later stage
\* having run, and every failure the function detects returns the same value,
\* None, whichever stage failed.
C2_ShortCircuitOneFailureValue ==
    Returned /\ returned_at # 163 =>
        /\ result.kind = "None" /\ result.items = <<>>
        /\ returned_at \in {63, 68} =>
              ocr_calls = 0 /\ llm_calls = 0 /\ search_calls = 0
                  /\ repair_calls = 0 /\ parse_calls = 0
        /\ returned_at = 83 =>
              llm_calls = 0 /\ search_calls = 0 /\ repair_calls = 0 /\ parse_calls = 0
        /\ returned_at = 169 /\ stub.kind = "fail" =>
              search_calls = 0 /\ repair_calls = 0 /\ parse_calls = 0
        /\ returned_at = 127 => repair_calls = 0 /\ parse_calls = 0
        /\ returned_at = 134 => parse_calls = 0
        /\ returned_at = 169 /\ stub.kind # "fail" =>
              parse_calls = 1 /\ categorized_items = <<>> /\ processed_items = <<>>
        /\ returned_at = 161 => processed_items = <<>>

\* A reply that json.loads rejects has ended the call with None, at the line
\* a failed model call ends it.
C2_Witness ==
    /\ pc = "done" /\ returned_at = 169 /\ stub.kind = "text"
    /\ parse_calls = 1 /\ result.kind = "None"

\* C3: the profiles are tried in the order of psm_modes, each at most once;
\* the best text is the trimmed output of the earliest run among those of
\* greatest length, so only a strictly longer output replaces it and on equal
\* lengths the earliest run's text stays.
C3_ProfilesInOrderEarliestLongest ==
    /\ Len(attempts) <= Len(psm_modes)
    /\ \A k \in 1..Len(attempts) : attempts[k].psm = psm_modes[k]
    /\ attempts # <<>> /\ (pc = "ocr" \/ LoopEnded) =>
          /\ extracted_text = TextOf(EarliestLongest)
          /\ \A k \in 1..Len(attempts) : Len(extracted_text) >= Len(TextOf(k))

\* Two runs gave different texts of the same greatest length and the first
\* one's text was kept.
C3_Witness ==
    /\ pc = "check_text"
    /\ \E j, k \in 1..Len(attempts) :
          /\ j < k
          /\ TextOf(j) # TextOf(k)
          /\ Len(TextOf(j)) = Len(TextOf(k))
          /\ Len(TextOf(j)) = MaxLenUpTo(Len(attempts))
          /\ EarliestLongest = j
          /\ extracted_text = TextOf(j)

\* The claim of C4 for a stopping length n: the loop ended at the first run
\* after which the best text had n characters or more, or every profile was
\* tried and the text kept is as long as any run's.
StopsOnReaching(n) ==
    LoopEnded =>
        \/ FirstReaching(n) # 0 /\ Len(attempts) = FirstReaching(n)
        \/ /\ Len(attempts) = Len(psm_modes)
           /\ \A k \in 1..Len(attempts) : Len(extracted_text) >= Len(TextOf(k))

\* C4 as stated: the loop stops at the first profile whose best-so-far text
\* reaches 50 characters, or else every profile is tried.
C4_StopsAtFifty == StopsOnReaching(Threshold)

\* C4, amended: the loop stops at the first profile whose best-so-far text
\* is longer than 50 characters and runs no later profile; when no text is
\* longer than 50 every profile is tried; either way the text kept is as long
\* as every tried profile's.
C4_StopsAboveFifty ==
    /\ StopsOnReaching(Threshold + 1)
    /\ pc = "ocr" => FirstReaching(Threshold + 1) = 0
    /\ LoopEnded =>
          /\ FirstReaching(Threshold + 1) = 0 => Len(attempts) = Len(psm_modes)
          /\ \A k \in 1..Len(attempts) : Len(extracted_text) >= Len(TextOf(k))

\* A run of exactly 50 characters did not end the loop and the next run, of
\* 51, did.
C4_Witness ==
    /\ pc = "check_text"
    /\ Len(attempts) = 2
    /\ Len(TextOf(1)) = Threshold
    /\ Len(extracted_text) = Threshold + 1

\* C5: when every profile's output is empty after trimming, all six profiles
\* are tried, the call ends at line 83 with the failure value, and the
\* language model is not called.
C5_EmptyOcrFails ==
    AllEmpty =>
        /\ llm_calls = 0
        /\ pc \in {"ocr", "check_text", "done"}
        /\ pc = "check_text" => Len(attempts) = Len(psm_modes)
        /\ Returned =>
              /\ Len(attempts) = Len(psm_modes)
              /\ ocr_calls = Len(psm_modes)
              /\ result.kind = "None"
              /\ returned_at = 83

\* Six runs gave white space only and the call has failed.
C5_Witness == pc = "done" /\ AllEmpty /\ returned_at = 83 /\ Len(attempts) = 6

\* C6: the language model is called at most once in a call, exactly once
\* when the OCR loop left a text that is not empty, and not at all otherwise;
\* when that one call raises, the call ends at once with the failure value and
\* neither the search for JSON, nor the repair, nor the parse is run.
C6_OneModelCallNoRetry ==
    /\ llm_calls <= 1
    /\ Returned /\ extracted_text # "" => llm_calls = 1
    /\ Returned /\ extracted_text = "" => llm_calls = 0
    /\ stub.kind = "fail" =>
          /\ pc = "done"
          /\ llm_calls = 1
          /\ result.kind = "None"
          /\ returned_at = 169
          /\ search_calls = 0 /\ repair_calls = 0 /\ parse_calls = 0

\* The one request raised and the call is over.
C6_Witness == pc = "done" /\ stub.kind = "fail" /\ llm_calls = 1 /\ returned_at = 169

\* C7 as stated: a text that convert_to_valid_json has returned and that
\* json.loads accepts is left as it is by convert_to_valid_json.
C7_RepairIdempotent ==
    pc = "parse" /\ json_loads(valid_json_str).ok =>
        convert_to_valid_json(valid_json_str) = valid_json_str

\* No quote character and no comment marker in s.
Plain(s) == \A mark \in {"'", "\"", "//", "/*", "*/"} : ~Contains(s, mark)

\* An object of exactly item, price and category, the price a number and the
\* two texts plain.
WellFormed(x) ==
    /\ x.t = "dict"
    /\ Len(x.v) = 3
    /\ HasAllKeys(x)
    /\ ValueOf(x, "item").t = "str" /\ Plain(ValueOf(x, "item").s)
    /\ ValueOf(x, "category").t = "str" /\ Plain(ValueOf(x, "category").s)
    /\ ValueOf(x, "price").t \in {"int", "float"}

\* C8 as stated: a reply that is a JSON array of well-formed objects yields one
\* LineItem per object, in order, item and category the same text and the
\* price the same number.
C8_RoundTrip ==
    /\ pc = "done"
    /\ stub.kind = "array"
    /\ stub.elems # <<>>
    /\ \A i \in 1..Len(stub.elems) : WellFormed(stub.elems[i])
    => /\ result.kind = "list"
       /\ Len(result.items) = Len(stub.elems)
       /\ \A i \in 1..Len(stub.elems) :
             /\ result.items[i].item = ValueOf(stub.elems[i], "item").s
             /\ result.items[i].category = ValueOf(stub.elems[i], "category").s
             /\ result.items[i].price =
                    MkFloat(ValueOf(stub.elems[i], "price").m, ValueOf(stub.elems[i], "price").e)

\* Numbers as a reply may write them, with the float each denotes (m / 10^e).
Numerals ==
    { [text |-> "12.50", m |-> 1250, e |-> 2],
      [text |-> "7", m |-> 7, e |-> 0],
      [text |-> "0.5", m |-> 5, e |-> 1] }

\* What may stand before and after the number: currency symbols and white space.
Decoration ==
    {"", " ", "$", PoundSign, EuroSign, " " \o EuroSign, "$ ", " " \o PoundSign \o " "}

\* Texts that hold no number once the symbols and the white space are gone.
NonNumeric == {"N/A", "", "$", "free", "1,299.00", "12.50 USD"}

\* C9: for every parsed object holding item, price and category one LineItem
\* is emitted; its price is 0.0 when the price is null, the number when the
\* price is a text made of a number with currency symbols and white space
\* around it, and 0.0 when the text holds no number.
C9_PriceNormalised ==
    Validated =>
        /\ Len(processed_items) = Len(Emitted)
        /\ \A i \in 1..Len(Emitted) :
              LET p == ValueOf(Emitted[i], "price")
                  q == processed_items[i].price
              IN  /\ p.t = "null" => q = MkFloat(0, 0)
                  /\ p.t = "str" =>
                        \A pre \in Decoration, n \in Numerals, post \in Decoration :
                            p.s = pre \o n.text \o post => q = MkFloat(n.m, n.e)
                  /\ p.t = "str" /\ p.s \in NonNumeric => q = MkFloat(0, 0)

\* "$12.50" has become 12.5 and "N/A" has become 0.0, both elements returned.
C9_Witness ==
    /\ pc = "done" /\ result.kind = "list"
    /\ Len(Emitted) = 2 /\ Len(result.items) = 2
    /\ ValueOf(Emitted[1], "price") = MkStr("$12.50")
    /\ result.items[1].price = MkFloat(125, 1)
    /\ ValueOf(Emitted[2], "price") = MkStr("N/A")
    /\ result.items[2].price = MkFloat(0, 0)

\* x is an object.
IsObject(x) == x.t = "dict"

\* The LineItem C10 expects of an object: a key that is absent gives its default.
Defaulted(x) ==
    [item |-> IF HasKey(x, "item") THEN PyStr(ValueOf(x, "item")) ELSE "Unknown",
     price |-> IF HasKey(x, "price") THEN ConvertPrice(ValueOf(x, "price")) ELSE MkFloat(0, 0),
     category |-> IF HasKey(x, "category") THEN PyStr(ValueOf(x, "category"))
                  ELSE "Uncategorized"]

\* C10 as stated: every element that is an object yields a LineItem, an absent
\* price giving 0.0, an absent item "Unknown", an absent category
\* "Uncategorized".
C10_AbsentKeysDefaulted ==
    Validated =>
        LET objects == SelectSeq(categorized_items, IsObject)
        IN  /\ Len(processed_items) = Len(objects)
            /\ \A i \in 1..Len(objects) : processed_items[i] = Defaulted(objects[i])

\* C10, amended: an element that is an object lacking any of item, price or
\* category yields no LineItem; the LineItems are those of the elements
\* holding all three keys, in order, with the item and category they hold, so
\* no default stands in for an absent key.
C10_AbsentKeysSkipped ==
    Validated =>
        /\ Len(processed_items) = Len(Emitted)
        /\ \A i \in 1..Len(Emitted) :
              /\ processed_items[i].item = PyStr(ValueOf(Emitted[i], "item"))
              /\ processed_items[i].category = PyStr(ValueOf(Emitted[i], "category"))

\* Of an object without price and a complete one, only the complete one was
\* returned.
C10_Witness ==
    /\ pc = "done" /\ result.kind = "list"
    /\ Len(categorized_items) = 2
    /\ IsObject(categorized_items[1]) /\ ~HasKey(categorized_items[1], "price")
    /\ HasAllKeys(categorized_items[2])
    /\ Len(result.items) = 1
    /\ result.items[1].item = PyStr(ValueOf(categorized_items[2], "item"))

\* The language model has answered with a text.
Replied == stub.kind \in {"text", "array", "quoted"}

\* The reply as line 108 keeps it.
Response == Strip(stub.text)

\* Where the character c stands in s.
Positions(s, c) == {i \in 1..Len(s) : At(s, i) = c}

\* s holds an opener with a closer somewhere after it.
HasSpan(s, open, close) ==
    \E i \in Positions(s, open) : \E j \in Positions(s, close) : i < j

\* The text from the first opener of s to its last closer.
OuterSpan(s, open, close) ==
    SubSeq(s, Least(Positions(s, open)), Greatest(Positions(s, close)))

\* The places of the parsed elements that hold all three keys.
KeptIndices == {i \in 1..Len(categorized_items) : HasAllKeys(categorized_items[i])}

\* The place of the k-th such element.
KeptIndex(k) ==
    CHOOSE i \in KeptIndices : Cardinality({j \in KeptIndices : j <= i}) = k

\* C11: the LineItems are those of the parsed elements that are objects
\* holding item, price and category, in the order of the array; every other
\* element (not an object, or lacking a key) is left out, and leaving it out
\* neither raises nor ends the run before the loop is through.
C11_NonConformingDropped ==
    /\ Validated =>
          /\ Len(processed_items) = Cardinality(KeptIndices)
          /\ \A k \in 1..Len(processed_items) :
                LET x == categorized_items[KeptIndex(k)]
                IN  processed_items[k] =
                        [item |-> PyStr(ValueOf(x, "item")),
                         price |-> ConvertPrice(ValueOf(x, "price")),
                         category |-> PyStr(ValueOf(x, "category"))]
    /\ categorized_items # <<>> =>
          /\ pc \in {"validate", "return", "done"}
          /\ pc = "done" => returned_at \in {161, 163}

\* A text element was left out and the object after it was kept.
C11_Witness ==
    /\ pc = "done" /\ result.kind = "list"
    /\ Len(categorized_items) = 2
    /\ categorized_items[1].t = "str"
    /\ HasAllKeys(categorized_items[2])
    /\ Len(result.items) = 1

\* C12 as stated: every LineItem returned holds a price that is a finite
\* number and not negative.
C12_PriceFiniteNonNegative ==
    pc = "done" /\ result.kind = "list" =>
        \A i \in 1..Len(result.items) :
            /\ result.items[i].price.t = "float"
            /\ result.items[i].price.m >= 0

\* C13: when the validation loop leaves no LineItem, as it does for the reply
\* [], the call ends at line 161 with the failure value; a list that is
\* returned is never empty.
C13_EmptyResultFails ==
    /\ pc = "done" /\ returned_at \in {161, 163} =>
          (processed_items = <<>> <=> returned_at = 161)
    /\ pc = "done" /\ returned_at = 161 => result.kind = "None"
    /\ result.kind = "list" => result.items # <<>> /\ returned_at = 163
    /\ pc = "done" /\ Replied /\ Response = "[]" => returned_at = 161

\* The reply [] has ended the call with the failure value.
C13_Witness ==
    /\ pc = "done" /\ stub.text = "[]"
    /\ returned_at = 161 /\ result.kind = "None" /\ parse_calls = 1

\* C14: a reply in which no [ is followed by a ] and no { by a } ends the
\* call at line 127 with the failure value, neither
\* convert_to_valid_json nor json.loads having been called.
C14_ProseFailsBeforeRepair ==
    Replied /\ ~HasSpan(Response, "[", "]") /\ ~HasSpan(Response, "{", "}") =>
        /\ pc \in {"locate", "done"}
        /\ repair_calls = 0
        /\ parse_calls = 0
        /\ pc = "done" => result.kind = "None" /\ returned_at = 127

\* A reply holding brackets and braces, none of them closed, was refused.
C14_Witness ==
    /\ pc = "done" /\ returned_at = 127
    /\ Replied /\ Positions(Response, "[") # {} /\ Positions(Response, "{") # {}

C16_LocatePrecedence ==
    search_calls = 1 /\ Replied =>
        /\ HasSpan(Response, "[", "]") => json_str = OuterSpan(Response, "[", "]")
        /\ ~HasSpan(Response, "[", "]") /\ HasSpan(Response, "{", "}") =>
              json_str = "[" \o OuterSpan(Response, "{", "}") \o "]"

\* A reply with a second ] after the array: the candidate runs to the last one.
C16_Witness ==
    /\ search_calls = 1 /\ Replied
    /\ Cardinality(Positions(Response, "]")) > 1
    /\ json_str = OuterSpan(Response, "[", "]")
    /\ Len(json_str) > Len(LazySpan(Response, "[", "]"))

\* C17: convert_to_valid_json and json.loads are each called at most once in
\* a call; when json.loads rejects the repaired text the call ends at once
\* with the failure value and no LineItem.
C17_ParseFailureIsFinal ==
    /\ search_calls <= 1 /\ repair_calls <= 1 /\ parse_calls <= 1
    /\ parse_calls = 1 =>
          \/ /\ pc = "done"
             /\ returned_at = 169
             /\ result.kind = "None"
             /\ repair_calls = 1
             /\ categorized_items = <<>>
             /\ processed_items = <<>>
          \/ json_loads(valid_json_str).ok

\* A reply that is not JSON after the repair has ended the call.
C17_Witness ==
    /\ pc = "done" /\ stub.text = BrokenJson
    /\ returned_at = 169 /\ repair_calls = 1 /\ parse_calls = 1

\* C19: when neither the search for [...] nor the search for {...} matches,
\* the scan for {...?} spans of line 123 finds nothing either, so the
\* candidate is never the join of several spans; a reply of several objects
\* and no brackets gives the one span from its first { to its last },
\* wrapped.
C19_FallbackUnreachable ==
    search_calls = 1 /\ Replied =>
        /\ GreedySpan(Response, "[", "]") = "" /\ GreedySpan(Response, "{", "}") = "" =>
              ObjectSpansFrom(Response, 1) = <<>> /\ json_str = ""
        /\ ~HasSpan(Response, "[", "]") /\ Len(ObjectSpansFrom(Response, 1)) > 1 =>
              /\ json_str = "[" \o OuterSpan(Response, "{", "}") \o "]"
              /\ json_str # "[" \o Join(ObjectSpansFrom(Response, 1), ",") \o "]"

\* A reply of two objects and no brackets was taken as one wrapped span.
C19_Witness ==
    /\ search_calls = 1 /\ Replied
    /\ Positions(Response, "[") = {}
    /\ Len(ObjectSpansFrom(Response, 1)) = 2
    /\ json_str = "[" \o OuterSpan(Response, "{", "}") \o "]"

-----------------------------------------------------------------------------
(* Properties of the OCR widget *)

Started == 1..Len(runs)

\* The dialogs that report a run's result: lines 132, 135 and 144.
ResultBoxes(r) == {Box(kind, r) : kind \in {"Success", "OCR Failed", "OCR Error"}}

\* The worker is inside run(): it has not emitted and was not terminated.
Working(r) == runs[r].state = "running"

\* A slot has closed the run: _on_ocr_finished, _on_ocr_error or _cancel_ocr.
Ended(r) == runs[r].ended # <<>>

\* C18: once _cancel_ocr has run for a receipt run, no later step renders
\* that run's result into the results table, and none opens a success or
\* failure dialog for that run.
C18_CancelDiscardsResult ==
    [][\A r \in Started :
          runs[r].cancelled =>
              /\ (table' = r => table = r)
              /\ (ResultBoxes(r) \cap boxes') \subseteq boxes]_vars

\* C20: at most one OCRWorker is at work at any time; from the start of a
\* run until a slot ends it both buttons are disabled; a run is ended by
\* only one of finished, error and cancel; and ocr_thread never holds a run
\* that has ended.
C20_OneRunOneEnding ==
    /\ Cardinality({r \in Started : Working(r)}) <= 1
    /\ \A r \in Started : ~Ended(r) => ~process_enabled /\ ~select_enabled
    /\ \A r \in Started : Len(runs[r].ended) <= 1
    /\ \A r \in Started : Ended(r) => ocr_thread # r

\* C20, the step that ends a run: it leaves both buttons enabled and
\* ocr_thread None.
C20_EndingResetsWidget ==
    [][\A r \in Started :
          ~Ended(r) /\ runs'[r].ended # <<>> =>
              process_enabled' /\ select_enabled' /\ ocr_thread' = 0]_vars

\* C20, under FairUI: every started run is ended in the end.
C20_EveryRunEnds ==
    \A r \in 1..MaxRuns : (r \in Started) ~> (r \in Started /\ Ended(r))

-----------------------------------------------------------------------------
(* Properties of the credit counter *)

\* The latest event was a send with a text in the input line.
Sent == last.kind \in {"accepted", "refused"}

\* C21: after any sequence of chat sends and model switches the balance of
\* MainWindow is not negative and ChatWidget holds the same balance; a send
\* is accepted exactly when the balance covers the selected model's cost; an
\* accepted send calls the model and lowers the balance by exactly that cost,
\* whether the model gives an answer or an error text; a refused send, a
\* send without text and a model switch change no credits and call no model.
C21_CreditsConserved ==
    /\ main_credits >= 0
    /\ chat_credits = main_credits
    /\ [][/\ main_credits' >= 0
          /\ chat_credits' = main_credits'
          /\ last'.kind \in {"accepted", "refused"} =>
                /\ last'.model = model_name
                /\ last'.kind = "accepted" <=> main_credits >= CostOf(model_name)
          /\ last'.kind = "accepted" =>
                /\ main_credits' = main_credits - CostOf(model_name)
                /\ last'.reply \in {"answer", "error", "None"}
          /\ last'.kind # "accepted" =>
                /\ main_credits' = main_credits
                /\ chat_credits' = chat_credits
                /\ last'.reply = ""]_vars

\* With 90 credits left, after sends to the Expert and the Advanced model,
\* a send to the Expert model was refused.
C21_Witness ==
    /\ last.kind = "refused"
    /\ last.model = MODEL_OPTIONS[1].name
    /\ main_credits = 90
    /\ chat_credits = 90

=============================================================================
